---------------------------- MODULE Spec2Model ----------------------------
(***************************************************************************)
(* Download quota and on-demand PDF export of the gomaner API.             *)
(*                                                                         *)
(* The repository holds three versions of the router that serves           *)
(* GET /download/:slug/:chapterSlug behind the checkDownloadLimit          *)
(* middleware:                                                             *)
(*   "apiA"    src/routes/api.js, lines 1-471                              *)
(*   "apiB"    src/routes/api.js, lines 472-711                            *)
(*   "part001" src/unnamed/part_001, lines 429-724                         *)
(* A server process loads one of them; the variable router says which.     *)
(* Strings that the code inspects character by character (the client       *)
(* address) are sequences of one-character strings.                        *)
(***************************************************************************)
EXTENDS Integers, Sequences, FiniteSets, TLC

VARIABLES
    router,      \* which version of the router module the process loaded
    users,       \* the User collection: identity id -> account record
    guestCache,  \* const guestCache = new Map(): client address -> count
    downloads,   \* Manga.downloads of the requested manga
    req,         \* the download requests: position, req.* fields, response
    stats        \* the last GET /stats request and the JSON it was answered

vars == <<router, users, guestCache, downloads, req, stats>>

-----------------------------------------------------------------------------
(* Bounds of the model *)

MaxImages == 1      \* longest chapter.images list when requests overlap
MaxDocImages == 3   \* longest chapter.images list of a request on its own

(* Program constants *)

LIMIT_GUEST_IP == 10
LIMIT_USER == 50

Routers == {"apiA", "apiB", "part001"}

(* The download requests of a behaviour: two, which may overlap in every  *)
(* way, numbered in the order of their arrival.                           *)
Reqs == {1, 2}

(* JavaScript's undefined, as a value of the same shape as an address *)
Undefined == <<"undefined">>

(* Identities the auth middleware may attach as req.user: "none" is       *)
(* req.user = null, "u0" an id whose account record is gone, "u1" an id   *)
(* with an account record.                                                 *)
NoUser == "none"
Identities == {"u0", "u1"}
Accounts == {"u1"}
EmailOf(id) == IF id = "u1" THEN "u1@mail" ELSE "nobody@mail"

(* The addresses a request comes with: the X-Forwarded-For header and    *)
(* req.socket.remoteAddress.  The header is absent, one address, a list   *)
(* whose first address is followed by a blank, or a list whose first      *)
(* entry is empty; the socket address is "c", or absent with the header.  *)
Addresses ==
    { [xff |-> Undefined,               remote |-> Undefined],
      [xff |-> Undefined,               remote |-> <<"c">>],
      [xff |-> <<"a">>,                 remote |-> <<"c">>],
      [xff |-> <<"a", " ", ",", "b">>,  remote |-> <<"c">>],
      [xff |-> <<",", "b">>,            remote |-> <<"c">>] }

(* The addresses of the requests that carry a bearer token *)
UserAddresses == { a \in Addresses : a.xff = <<"a">> }

(* downloadCount values an account may hold when the process starts *)
InitCounts == {0, 49, 50, 1000}

(* Guest counters left by earlier finished downloads of address "a" *)
InitGuestCounts == {0, 9, 10}

(* chapter.images: the URLs 1..n in order *)
ImageLists(max) == { [i \in 1..n |-> i] : n \in 1..max }

-----------------------------------------------------------------------------
(* String helpers: String.prototype.includes, split(',')[0], trim *)

Includes(s, c) == \E i \in 1..Len(s) : s[i] = c

FirstIndex(s, c) == CHOOSE i \in 1..Len(s) : s[i] = c /\ \A j \in 1..(i-1) : s[j] # c

SplitFirst(s) == IF Includes(s, ",") THEN SubSeq(s, 1, FirstIndex(s, ",") - 1) ELSE s

RECURSIVE TrimStart(_)
TrimStart(s) == IF s # <<>> /\ Head(s) = " " THEN TrimStart(Tail(s)) ELSE s

RECURSIVE TrimEnd(_)
TrimEnd(s) == IF s # <<>> /\ s[Len(s)] = " " THEN TrimEnd(SubSeq(s, 1, Len(s) - 1)) ELSE s

Trim(s) == TrimEnd(TrimStart(s))

(* JavaScript truthiness of a string-or-undefined value *)
Truthy(s) == s # Undefined /\ s # <<>>

(* a || b *)
Or(a, b) == IF Truthy(a) THEN a ELSE b

-----------------------------------------------------------------------------
(* The stores *)

(* guestCache.get(ip) || 0 *)
CacheGet(cache, ip) == IF ip \in DOMAIN cache THEN cache[ip] ELSE 0

(* guestCache.set(ip, n) *)
CacheSet(cache, ip, n) == [k \in (DOMAIN cache) \cup {ip} |-> IF k = ip THEN n ELSE cache[k]]

(* User.findById(id) answers a record (not null) *)
HasRecord(id) == id \in DOMAIN users

(* Mutant: the count is written back from the document read at the       *)
(* limit check: of two writers that read the same count one is lost.       *)
IncDownloadCountLost(id) ==
    IF HasRecord(id) /\ ~\E s \in DOMAIN req :
                            req[s].pc \in {"stat", "done"} /\ req[s].userDoc = id
    THEN [users EXCEPT ![id].downloadCount = @ + 1]
    ELSE users

(* { $inc: { downloadCount: 1 } } on one account; no record, no change *)
IncDownloadCount(id) ==
    IF HasRecord(id)
    THEN [users EXCEPT ![id].downloadCount = @ + 1]
    ELSE users

-----------------------------------------------------------------------------
(* A request before it arrives *)
NewReq ==
    [ pc       |-> "new",
      user     |-> NoUser,      \* req.user.id, or "none" for req.user = null
      xff      |-> Undefined,   \* req.headers['x-forwarded-for']
      remote   |-> Undefined,   \* req.socket.remoteAddress
      dbErr    |-> FALSE,       \* User.findById rejected for this request
      status   |-> 0,           \* HTTP status of the response, 0 while unset
      userDoc  |-> NoUser,      \* req.userDoc (its _id), "none" while unset
      isGuest  |-> FALSE,       \* req.isGuest
      clientIp |-> Undefined,   \* req.clientIp
      images   |-> <<>>,        \* chapter.images
      idx      |-> 0,           \* images whose block has run (axios.get calls)
      pages    |-> <<>>,        \* pages of doc: [url, drawn]
      skipped  |-> {},          \* the urls of the "[Skip Image]" warnings
      closed   |-> FALSE,       \* the client went away before the end
      errors   |-> <<>> ]       \* console.error lines of the request

(* The outcome of checkDownloadLimit: next() called or a response sent *)
Outcome(next, status, userDoc, isGuest, clientIp) ==
    [next |-> next, status |-> status, userDoc |-> userDoc,
     isGuest |-> isGuest, clientIp |-> clientIp]

(* Mutant: the return before res.status(...) is lost, next() runs too *)
DenyAndNext(status) == Outcome(TRUE, status, NoUser, FALSE, Undefined)

Deny(status) == Outcome(FALSE, status, NoUser, FALSE, Undefined)

(* Mutant: the account limit compared with > *)
UserLimitReachedStrict(count) == count > LIMIT_USER

(* user.downloadCount >= 50 *)
UserLimitReached(count) == count >= LIMIT_USER

(* Mutant: the guest limit compared with > *)
GuestLimitReachedStrict(usage) == usage > LIMIT_GUEST_IP

(* currentUsage >= LIMIT_GUEST_IP *)
GuestLimitReached(usage) == usage >= LIMIT_GUEST_IP

(* Mutant: the count is tested before the premium flag *)
ClassifyUserCountFirst(id, dbErr) ==
    IF dbErr THEN Deny(500)
    ELSE IF ~HasRecord(id) THEN Deny(404)
    ELSE IF UserLimitReached(users[id].downloadCount) THEN Deny(403)
    ELSE IF users[id].isPremium THEN Outcome(TRUE, 0, NoUser, FALSE, Undefined)
    ELSE Outcome(TRUE, 0, id, FALSE, Undefined)

(* Mutant: req.isGuest is set for the registered bucket too *)
ClassifyUserMarkedGuest(id, dbErr) ==
    IF dbErr THEN Deny(500)
    ELSE IF ~HasRecord(id) THEN Deny(404)
    ELSE IF users[id].isPremium THEN Outcome(TRUE, 0, NoUser, FALSE, Undefined)
    ELSE IF UserLimitReached(users[id].downloadCount) THEN Deny(403)
    ELSE Outcome(TRUE, 0, id, TRUE, Undefined)

(* Branch A of checkDownloadLimit: req.user && req.user.id.  dbErr: the   *)
(* findById promise rejects and the catch block answers 500.              *)
ClassifyUser(id, dbErr) ==
    IF dbErr THEN Deny(500)
    ELSE IF ~HasRecord(id) THEN Deny(404)
    ELSE IF users[id].isPremium THEN Outcome(TRUE, 0, NoUser, FALSE, Undefined)
    ELSE IF UserLimitReached(users[id].downloadCount) THEN Deny(403)
    ELSE Outcome(TRUE, 0, id, FALSE, Undefined)

(* if (ip.includes(',')) ip = ip.split(',')[0].trim() *)
CleanIp(ip) == IF Includes(ip, ",") THEN Trim(SplitFirst(ip)) ELSE ip

(* The guest key of a request.  apiA takes the header as it is; apiB and  *)
(* part001 clean it.                                                       *)
GuestIp(xff, remote) ==
    IF router = "apiA" THEN Or(xff, remote) ELSE CleanIp(Or(xff, remote))

(* Branch B of checkDownloadLimit.  In apiB and part001 ip.includes       *)
(* throws a TypeError when neither address is there: the catch block      *)
(* answers 500.                                                            *)
ClassifyGuest(xff, remote) ==
    IF router # "apiA" /\ Or(xff, remote) = Undefined THEN Deny(500)
    ELSE IF GuestLimitReached(CacheGet(guestCache, GuestIp(xff, remote))) THEN Deny(403)
    ELSE Outcome(TRUE, 0, NoUser, TRUE, GuestIp(xff, remote))

(* Mutant: an identity without a record is handled as a guest *)
ClassifyRecordOrGuest(id, xff, remote, dbErr) ==
    IF id # NoUser /\ (dbErr \/ HasRecord(id))
    THEN ClassifyUser(id, dbErr)
    ELSE ClassifyGuest(xff, remote)

Classify(id, xff, remote, dbErr) ==
    IF id # NoUser THEN ClassifyUser(id, dbErr) ELSE ClassifyGuest(xff, remote)

-----------------------------------------------------------------------------
(* GET /stats *)

(* The limit field of the answer: a number, or the string of the premium  *)
(* answer (the infinity sign).                                             *)
Finite(n) == [finite |-> TRUE, n |-> n]
Unlimited == [finite |-> FALSE, n |-> 0]

(* res.json({ type, usage, limit }) *)
Reply(type, usage, limit) == [type |-> type, usage |-> usage, limit |-> limit]

(* The answer of the catch block and of the branch of a missing account *)
GuestZero == Reply("guest", 0, Finite(LIMIT_GUEST_IP))

(* The try block of GET /stats throws: User.findById rejects, or          *)
(* ip.includes is called on undefined (apiA never calls it).              *)
StatsThrows(id, xff, remote, dbErr) ==
    IF id # NoUser THEN dbErr
    ELSE router # "apiA" /\ Or(xff, remote) = Undefined

(* Mutant: the premium answer reports no usage *)
StatsUserPremiumZero(id) ==
    IF ~HasRecord(id) THEN GuestZero
    ELSE IF users[id].isPremium THEN Reply("premium", 0, Unlimited)
    ELSE Reply("user", users[id].downloadCount, Finite(LIMIT_USER))

(* if (req.user && req.user.id): the answer for a signed-in caller *)
StatsUser(id) ==
    IF ~HasRecord(id) THEN GuestZero
    ELSE IF users[id].isPremium
         THEN Reply("premium", users[id].downloadCount, Unlimited)
    ELSE Reply("user", users[id].downloadCount, Finite(LIMIT_USER))

(* The answer for a caller without identity *)
StatsGuest(xff, remote) ==
    Reply("guest", CacheGet(guestCache, GuestIp(xff, remote)), Finite(LIMIT_GUEST_IP))

(* Mutant: no try/catch around the handler, Express answers 500 *)
StatsReplyNoCatch(id, xff, remote, dbErr) ==
    IF StatsThrows(id, xff, remote, dbErr) THEN Reply("error", 0, Finite(0))
    ELSE IF id # NoUser THEN StatsUser(id)
    ELSE StatsGuest(xff, remote)

(* The JSON GET /stats answers *)
StatsReply(id, xff, remote, dbErr) ==
    IF StatsThrows(id, xff, remote, dbErr) THEN GuestZero
    ELSE IF id # NoUser THEN StatsUser(id)
    ELSE StatsGuest(xff, remote)

(* No GET /stats request yet *)
NoStats ==
    [id |-> NoUser, xff |-> Undefined, remote |-> Undefined, dbErr |-> FALSE,
     reply |-> Reply("none", 0, Finite(0))]

-----------------------------------------------------------------------------
(* The server at a quiet moment of its life: no request in flight, the    *)
(* account as the database holds it, the guest counter of address "a" as  *)
(* earlier finished downloads left it (an empty Map after a restart).     *)
Init ==
    /\ router \in Routers
    /\ \E p \in BOOLEAN, c \in InitCounts :
          users = [id \in Accounts |-> [isPremium |-> p, downloadCount |-> c]]
    /\ \E n \in InitGuestCounts :
          guestCache = IF n = 0 THEN <<>> ELSE CacheSet(<<>>, <<"a">>, n)
    /\ downloads = 0
    /\ req = [r \in Reqs |-> NewReq]
    /\ stats = NoStats

(* Mutant: the guest counter is taken at admission *)
checkDownloadLimitCounting(r, id, xff, remote, dbErr) ==
    /\ req[r].pc = "new"
    /\ \A s \in Reqs : s < r => req[s].pc # "new"
    /\ LET o == Classify(id, xff, remote, dbErr) IN
         /\ req' = [req EXCEPT ![r] =
                      [@ EXCEPT !.pc = IF o.next THEN "handler" ELSE "rejected",
                                !.user = id, !.xff = xff, !.remote = remote,
                                !.dbErr = (id # NoUser /\ dbErr),
                                !.status = o.status,
                                !.userDoc = o.userDoc,
                                !.isGuest = o.isGuest,
                                !.clientIp = o.clientIp]]
         /\ guestCache' = IF o.isGuest
                          THEN CacheSet(guestCache, o.clientIp,
                                        CacheGet(guestCache, o.clientIp) + 1)
                          ELSE guestCache
    /\ UNCHANGED <<router, users, downloads, stats>>

(* Mutant: a guest answered 403 has its counter deleted from the Map *)
checkDownloadLimitForgetting(r, id, xff, remote, dbErr) ==
    /\ req[r].pc = "new"
    /\ \A s \in Reqs : s < r => req[s].pc # "new"
    /\ LET o == Classify(id, xff, remote, dbErr) IN
         /\ req' = [req EXCEPT ![r] =
                      [@ EXCEPT !.pc = IF o.next THEN "handler" ELSE "rejected",
                                !.user = id, !.xff = xff, !.remote = remote,
                                !.dbErr = (id # NoUser /\ dbErr),
                                !.status = o.status,
                                !.userDoc = o.userDoc,
                                !.isGuest = o.isGuest,
                                !.clientIp = o.clientIp,
                                !.errors = IF o.status = 500
                                           THEN Append(@, "Limit Check Error")
                                           ELSE @]]
         /\ guestCache' = IF id = NoUser /\ o.status = 403
                          THEN [k \in (DOMAIN guestCache) \ {GuestIp(xff, remote)}
                                  |-> guestCache[k]]
                          ELSE guestCache
    /\ UNCHANGED <<router, users, downloads, stats>>

(* GET /download/:slug/:chapterSlug arrives and checkDownloadLimit runs.  *)
(* Either it calls next() (the route handler is entered) or it answers.   *)
checkDownloadLimit(r, id, xff, remote, dbErr) ==
    /\ req[r].pc = "new"
    /\ \A s \in Reqs : s < r => req[s].pc # "new"
    /\ LET o == Classify(id, xff, remote, dbErr) IN
         req' = [req EXCEPT ![r] =
                   [@ EXCEPT !.pc = IF o.next THEN "handler" ELSE "rejected",
                             !.user = id, !.xff = xff, !.remote = remote,
                             !.dbErr = (id # NoUser /\ dbErr),
                             !.status = o.status,
                             !.userDoc = o.userDoc,
                             !.isGuest = o.isGuest,
                             !.clientIp = o.clientIp,
                             !.errors = IF o.status = 500
                                        THEN Append(@, "Limit Check Error")
                                        ELSE @]]
    /\ UNCHANGED <<router, users, guestCache, downloads, stats>>

(* Mutant: the 'finish' listener is registered before the lookups, so    *)
(* the finished 404 or 500 answer runs it too.                             *)
LookupListenerFirst(r, found, imgs) ==
    /\ req[r].pc = "handler"
    /\ req' = [req EXCEPT ![r] =
                 IF found = "ok"
                 THEN [@ EXCEPT !.pc = "loop", !.status = 200, !.images = imgs]
                 ELSE [@ EXCEPT !.pc = "ended",
                                !.status = IF found = "throws" THEN 500 ELSE 404,
                                !.errors = Append(@, IF found = "throws"
                                                     THEN "Download Error"
                                                     ELSE "Error API")]]
    /\ UNCHANGED <<router, users, guestCache, downloads, stats>>

(* The route handler up to doc.pipe(res): the manga and the chapter are   *)
(* looked up.  found: "noManga", "noImages" (no chapter, or an empty      *)
(* image list), "throws" (a lookup or the PDF setup throws) or "ok".      *)
Lookup(r, found, imgs) ==
    /\ req[r].pc = "handler"
    /\ req' = [req EXCEPT ![r] =
                 IF found = "ok"
                 THEN [@ EXCEPT !.pc = "loop", !.status = 200, !.images = imgs]
                 ELSE [@ EXCEPT !.pc = "answered",
                                !.status = IF found = "throws" THEN 500 ELSE 404,
                                !.errors = Append(@, IF found = "throws"
                                                     THEN "Download Error"
                                                     ELSE "Error API")]]
    /\ UNCHANGED <<router, users, guestCache, downloads, stats>>

(* The steps of the per-image try block, in order *)
ImageSteps == <<"get", "sharp", "openImage", "addPage", "image">>
StepNo(at) == CHOOSE i \in 1..Len(ImageSteps) : ImageSteps[i] = at
FailPoints == {"none", "get", "sharp", "openImage", "addPage", "image"}

(* The pages of doc after the block of url ran and threw at step at       *)
(* ("none": it ran to its end).  doc.addPage comes before doc.image.      *)
PagesAfter(pages, url, at) ==
    IF at = "none" THEN Append(pages, [url |-> url, drawn |-> TRUE])
    ELSE IF StepNo(at) > StepNo("addPage") THEN Append(pages, [url |-> url, drawn |-> FALSE])
    ELSE pages

(* Mutant: no try/catch inside the loop, a throw reaches the outer catch *)
ImageNoCatch(r, at) ==
    /\ req[r].pc = "loop"
    /\ req[r].idx < Len(req[r].images)
    /\ LET url == req[r].images[req[r].idx + 1] IN
         req' = [req EXCEPT ![r] =
                   [@ EXCEPT !.idx = @ + 1,
                             !.pages = PagesAfter(@, url, at),
                             !.skipped = IF at = "none" THEN @ ELSE @ \cup {url},
                             !.pc = IF at = "none" THEN @ ELSE "answered",
                             !.errors = IF at = "none" THEN @
                                        ELSE Append(@, "Download Error")]]
    /\ UNCHANGED <<router, users, guestCache, downloads, stats>>

(* One turn of for (const url of chapter.images): the block of the next   *)
(* url; a throw is caught, logged and the loop goes on.                   *)
Image(r, at) ==
    /\ req[r].pc = "loop"
    /\ req[r].idx < Len(req[r].images)
    /\ LET url == req[r].images[req[r].idx + 1] IN
         req' = [req EXCEPT ![r] =
                   [@ EXCEPT !.idx = @ + 1,
                             !.pages = PagesAfter(@, url, at),
                             !.skipped = IF at = "none" THEN @ ELSE @ \cup {url}]]
    /\ UNCHANGED <<router, users, guestCache, downloads, stats>>

(* Mutant: the statistic is counted right after doc.end() *)
EndDocCounting(r) ==
    /\ req[r].pc = "loop"
    /\ req[r].idx = Len(req[r].images)
    /\ req' = [req EXCEPT ![r].pc = "ended"]
    /\ downloads' = downloads + 1
    /\ UNCHANGED <<router, users, guestCache, stats>>

(* doc.end(); res.on('finish', ...) *)
EndDoc(r) ==
    /\ req[r].pc = "loop"
    /\ req[r].idx = Len(req[r].images)
    /\ req' = [req EXCEPT ![r].pc = "ended"]
    /\ UNCHANGED <<router, users, guestCache, downloads, stats>>

(* The client goes away while the PDF is streamed: res is closed and      *)
(* never emits 'finish'.  The loop does not look at it.                   *)
Disconnect(r) ==
    /\ req[r].pc \in {"loop", "ended"}
    /\ ~req[r].closed
    /\ req' = [req EXCEPT ![r].closed = TRUE]
    /\ UNCHANGED <<router, users, guestCache, downloads, stats>>

(* Mutant: a plain else in place of else if (req.isGuest && ...) *)
LedgerBranchElseGuest(q) == IF q.userDoc # NoUser THEN "user" ELSE "guest"

(* Mutant: the listener reads the account again and skips a premium one *)
LedgerBranchFreshPremium(q) ==
    IF q.userDoc # NoUser
    THEN IF users[q.userDoc].isPremium THEN "none" ELSE "user"
    ELSE IF q.isGuest /\ (router = "apiA" \/ Truthy(q.clientIp)) THEN "guest"
    ELSE "none"

(* Mutant: a document without a drawn page is not counted *)
LedgerBranchNonEmpty(q) ==
    IF \A i \in 1..Len(q.pages) : ~q.pages[i].drawn THEN "none"
    ELSE IF q.userDoc # NoUser THEN "user"
    ELSE IF q.isGuest /\ (router = "apiA" \/ Truthy(q.clientIp)) THEN "guest"
    ELSE "none"

(* Which counter the finish handler writes: if (req.userDoc) ... else if  *)
(* (req.isGuest && req.clientIp) ...; apiA tests req.isGuest alone.       *)
LedgerBranch(q) ==
    IF q.userDoc # NoUser THEN "user"
    ELSE IF q.isGuest /\ (router = "apiA" \/ Truthy(q.clientIp)) THEN "guest"
    ELSE "none"

(* Where the finish handler goes after the quota update: part001 goes on  *)
(* to the Manga.downloads update, apiA and apiB have none.                *)
AfterLedger == IF router = "part001" THEN "stat" ELSE "done"

(* Mutant: the listener is put on 'close' as well *)
FinishedOrClosed(q) == q.pc = "ended"

(* res.on('finish', ...): res emits 'finish' once doc.end() was reached   *)
(* and every byte was handed over; a response the client left is closed   *)
(* and emits no 'finish'.                                                  *)
Finished(q) == q.pc = "ended" /\ ~q.closed

(* The 'finish' listener runs its quota update.  dbOk = FALSE:             *)
(* User.findByIdAndUpdate rejects, the catch block logs and the listener  *)
(* ends.                                                                   *)
Finish(r, dbOk) ==
    /\ Finished(req[r])
    /\ LET q == req[r]
           b == LedgerBranch(q)
       IN
         /\ users' = IF b = "user" /\ dbOk THEN IncDownloadCount(q.userDoc) ELSE users
         /\ guestCache' = IF b = "guest"
                          THEN CacheSet(guestCache, q.clientIp,
                                        CacheGet(guestCache, q.clientIp) + 1)
                          ELSE guestCache
         /\ req' = [req EXCEPT ![r] =
                      IF b = "user" /\ ~dbOk
                      THEN [@ EXCEPT !.pc = "done",
                                     !.errors = Append(@, "Limit Update Error")]
                      ELSE [@ EXCEPT !.pc = AfterLedger]]
    /\ UNCHANGED <<router, downloads, stats>>

(* Mutant: the rejected write is answered to the client as a 500 *)
CommitStatSurfaced(r, dbOk) ==
    /\ req[r].pc = "stat"
    /\ downloads' = IF dbOk THEN downloads + 1 ELSE downloads
    /\ req' = [req EXCEPT ![r] =
                 [@ EXCEPT !.pc = "done",
                           !.status = IF dbOk THEN @ ELSE 500,
                           !.errors = IF dbOk THEN @
                                      ELSE Append(@, "Limit Update Error")]]
    /\ UNCHANGED <<router, users, guestCache, stats>>

(* await Manga.findByIdAndUpdate(manga._id, { $inc: { downloads: 1 } })   *)
CommitStat(r, dbOk) ==
    /\ req[r].pc = "stat"
    /\ downloads' = IF dbOk THEN downloads + 1 ELSE downloads
    /\ req' = [req EXCEPT ![r] =
                 [@ EXCEPT !.pc = "done",
                           !.errors = IF dbOk THEN @
                                      ELSE Append(@, "Limit Update Error")]]
    /\ UNCHANGED <<router, users, guestCache, stats>>

(* Mutant: the upgrade also starts the account's count again *)
WebhookResetCount(email, status) ==
    /\ users' = [id \in DOMAIN users |->
                   IF status = "Success" /\ EmailOf(id) = email
                   THEN [isPremium |-> TRUE, downloadCount |-> 0]
                   ELSE users[id]]
    /\ UNCHANGED <<router, guestCache, downloads, req, stats>>

(* POST /trakteer-webhook: a Success payment makes the account of the     *)
(* supporter's email premium.                                              *)
Webhook(email, status) ==
    /\ users' = [id \in DOMAIN users |->
                   IF status = "Success" /\ EmailOf(id) = email
                   THEN [users[id] EXCEPT !.isPremium = TRUE]
                   ELSE users[id]]
    /\ UNCHANGED <<router, guestCache, downloads, req, stats>>

(* router.get('/stats', ...): the caller is answered, nothing is written *)
Stats(id, xff, remote, dbErr) ==
    /\ stats' = [id |-> id, xff |-> xff, remote |-> remote, dbErr |-> dbErr,
                 reply |-> StatsReply(id, xff, remote, dbErr)]
    /\ UNCHANGED <<router, users, guestCache, downloads, req>>

(* The steps of request r; its chapter has at most max images and the    *)
(* block of an image may throw at the steps in points.                    *)
Step(r, max, points) ==
    \/ \E id \in Identities, a \in UserAddresses, dbErr \in BOOLEAN :
          checkDownloadLimit(r, id, a.xff, a.remote, dbErr)
    \/ \E a \in Addresses :
          checkDownloadLimit(r, NoUser, a.xff, a.remote, FALSE)
    \/ \E found \in {"noManga", "noImages", "throws", "ok"}, imgs \in ImageLists(max) :
          Lookup(r, found, imgs)
    \/ \E at \in points : Image(r, at)
    \/ EndDoc(r)
    \/ Disconnect(r)
    \/ \E dbOk \in BOOLEAN : Finish(r, dbOk)
    \/ \E dbOk \in BOOLEAN : CommitStat(r, dbOk)

Payment ==
    \E email \in {"u1@mail", "nobody@mail"}, status \in {"Success", "Pending"} :
        Webhook(email, status)

(* Overlapping requests and payments.  The image loop touches nothing     *)
(* outside its own request, so here every image is fetched and drawn;     *)
(* SpecDoc follows one request through every failure of the loop.         *)
Next ==
    \/ \E r \in Reqs : Step(r, MaxImages, {"none"})
    \/ Payment

Spec == Init /\ [][Next]_vars

(* One request on its own, with a chapter of up to MaxDocImages images *)
NextDoc == Step(1, MaxDocImages, FailPoints)

SpecDoc == Init /\ [][NextDoc]_vars

(* The callers of GET /stats: the same identities and addresses as the   *)
(* download requests.                                                      *)
StatsReq ==
    \/ \E id \in Identities, a \in UserAddresses, dbErr \in BOOLEAN :
          Stats(id, a.xff, a.remote, dbErr)
    \/ \E a \in Addresses : Stats(NoUser, a.xff, a.remote, FALSE)

(* One download request, payments and the progress bar polling GET /stats *)
NextStats ==
    \/ Step(1, MaxImages, {"none"})
    \/ Payment
    \/ StatsReq

SpecStats == Init /\ [][NextStats]_vars

-----------------------------------------------------------------------------
(* Properties *)

(* checkDownloadLimit runs for request r in this step *)
Classified(r) == req[r].pc = "new" /\ req'[r].pc # "new"

(* The 'finish' listener of request r starts in this step *)
FinishStep(r) == req[r].pc = "ended" /\ req'[r].pc \in {"stat", "done"}

(* The 'finish' listener of request r makes a step *)
CommitStep(r) ==
    /\ req[r].pc \in {"ended", "stat"}
    /\ req'[r].pc \in {"stat", "done"}
    /\ req'[r].pc # req[r].pc

(* The account of request r as the database holds it *)
AccountRead(r) == req'[r].user \in DOMAIN users /\ ~req'[r].dbErr

(* The address of a request and the guest key the specification gives    *)
(* it: the first entry of the comma-separated list, trimmed.              *)
RawAddress(q) == Or(q.xff, q.remote)
NormalizedAddress(raw) == Trim(SplitFirst(raw))

(* C1: an authenticated request whose account exists, is not premium and  *)
(* has downloadCount >= 50 when checkDownloadLimit reads it is answered   *)
(* 403, and a request answered 403 fetches and transcodes nothing.        *)
C1_LimitedAccountDenied ==
    [][\A r \in Reqs :
        /\ (Classified(r) /\ AccountRead(r)
              /\ ~users[req'[r].user].isPremium
              /\ users[req'[r].user].downloadCount >= LIMIT_USER)
            => (req'[r].status = 403 /\ req'[r].pc = "rejected")
        /\ req[r].status = 403
            => (req'[r] = req[r] /\ req[r].idx = 0 /\ req[r].pages = <<>>)]_vars

C1_Witness ==
    \E r \in Reqs :
        /\ req[r].user = "u1" /\ req[r].status = 403 /\ req[r].pc = "rejected"
        /\ ~users["u1"].isPremium /\ users["u1"].downloadCount = LIMIT_USER

(* C2: an anonymous request whose normalized address has a guest counter  *)
(* of LIMIT_GUEST_IP or more when checkDownloadLimit runs is answered 403. *)
C2_GuestAtLimitDenied ==
    [][\A r \in Reqs :
        (Classified(r) /\ req'[r].user = NoUser
           /\ RawAddress(req'[r]) # Undefined
           /\ CacheGet(guestCache, NormalizedAddress(RawAddress(req'[r]))) >= LIMIT_GUEST_IP)
        => (req'[r].status = 403 /\ req'[r].pc = "rejected")]_vars

(* C3: a request of a premium account is admitted whatever its            *)
(* downloadCount: the premium test comes before the count test.           *)
C3_PremiumAdmitted ==
    [][\A r \in Reqs :
        (Classified(r) /\ AccountRead(r) /\ users[req'[r].user].isPremium)
        => (req'[r].pc = "handler" /\ req'[r].status = 0)]_vars

C3_Witness ==
    \E r \in Reqs :
        /\ req[r].user = "u1" /\ req[r].pc = "handler"
        /\ users["u1"].isPremium /\ users["u1"].downloadCount > LIMIT_USER

(* C4: an authenticated request whose identity has no account record is   *)
(* answered 404; it is not marked guest, gets no client address and takes *)
(* no further step (so it reaches no guest counter).                      *)
C4_UnknownAccount404 ==
    [][\A r \in Reqs :
        /\ (Classified(r) /\ req'[r].user \in Identities \ DOMAIN users /\ ~req'[r].dbErr)
            => (req'[r].status = 404 /\ req'[r].pc = "rejected"
                /\ ~req'[r].isGuest /\ req'[r].clientIp = Undefined)
        /\ (req[r].user \in Identities \ DOMAIN users)
            => req'[r] = req[r]]_vars

C4_Witness ==
    \E r \in Reqs :
        /\ req[r].user = "u0" /\ req[r].status = 404
        /\ req[r].xff = <<"a">>
        /\ CacheGet(guestCache, <<"a">>) >= LIMIT_GUEST_IP

(* C5: checkDownloadLimit is over before the lookup, a fetch, a transcode *)
(* or a page of a request begins, and a request it answered (403, 404)    *)
(* never reaches one of them.                                              *)
C5_AdmissionIsAGate ==
    [][\A r \in Reqs :
        /\ (Classified(r) /\ req'[r].status # 0) => req'[r].pc = "rejected"
        /\ req[r].pc = "rejected" => req'[r] = req[r]
        /\ (\/ req'[r].images # req[r].images
            \/ req'[r].idx # req[r].idx
            \/ req'[r].pages # req[r].pages
            \/ (req'[r].pc \in {"loop", "answered"} /\ req[r].pc # req'[r].pc))
           => (req[r].pc \in {"handler", "loop"} /\ req[r].status \in {0, 200})]_vars

C5_Witness ==
    \E r, s \in Reqs :
        /\ req[r].pc = "loop" /\ req[r].idx > 0
        /\ req[s].pc = "rejected" /\ req[s].status = 403

(* C6: when the stream of a request admitted as registered or as guest    *)
(* finishes, the counter of its own key (the account's downloadCount, or  *)
(* the guest counter of its normalized address) goes up by exactly 1.     *)
(* Stated for the routers that clean the address (apiB, part001); a      *)
(* commit whose database write is rejected is left aside.                 *)
C6_OwnCounterPlusOne ==
    [][\A r \in Reqs :
        (FinishStep(r) /\ router # "apiA" /\ req'[r].errors = req[r].errors)
        => /\ req[r].userDoc # NoUser
               => users'[req[r].userDoc].downloadCount
                    = users[req[r].userDoc].downloadCount + 1
           /\ (req[r].isGuest /\ RawAddress(req[r]) # Undefined)
               => CacheGet(guestCache', NormalizedAddress(RawAddress(req[r])))
                    = CacheGet(guestCache, NormalizedAddress(RawAddress(req[r]))) + 1]_vars

(* C7: whatever the bucket, the 'finish' listener of a finished download  *)
(* ends with Manga.downloads one higher.  A listener whose own statistic  *)
(* write is rejected is left aside.                                        *)
C7_StatisticPlusOne ==
    [][\A r \in Reqs :
        (CommitStep(r) /\ req'[r].pc = "done"
           /\ ~(req[r].pc = "stat" /\ req'[r].errors # req[r].errors))
        => downloads' = downloads + 1]_vars

(* C8: the commit runs only for a stream that finished (status 200, every *)
(* image handled, doc ended, client still there), at most once, never for *)
(* a request answered by the limit check or the lookup and never for a    *)
(* stream the client left; no counter changes outside a commit.           *)
C8_CommitOnlyOnceFromCompleted ==
    [][/\ \A r \in Reqs :
            /\ CommitStep(r)
                => (req[r].status = 200 /\ ~req[r].closed
                    /\ req[r].idx = Len(req[r].images))
            /\ req[r].pc = "done" => req'[r] = req[r]
            /\ (req[r].closed \/ req[r].pc \in {"rejected", "answered"})
                => req'[r].pc \notin {"stat", "done"}
       /\ (\/ downloads' # downloads
           \/ guestCache' # guestCache
           \/ \E id \in DOMAIN users :
                 users'[id].downloadCount # users[id].downloadCount)
          => \E r \in Reqs : CommitStep(r)]_vars

C8_Witness ==
    \E r, s \in Reqs :
        /\ req[r].pc = "done" /\ req[r].status = 200
        /\ req[s].pc = "ended" /\ req[s].closed

(* The marks of the premium bucket: no req.userDoc, no req.isGuest *)
PremiumMarks(q) == q.userDoc = NoUser /\ ~q.isGuest

(* C9: a request of a premium account is admitted without req.userDoc and *)
(* without req.isGuest, and the commit of such a request changes no       *)
(* account's downloadCount and no guest counter.                          *)
C9_PremiumCommitNoUsage ==
    [][\A r \in Reqs :
        /\ (Classified(r) /\ AccountRead(r) /\ users[req'[r].user].isPremium)
            => PremiumMarks(req'[r])
        /\ (CommitStep(r) /\ PremiumMarks(req[r]))
            => (users' = users /\ guestCache' = guestCache)]_vars

C9_Witness ==
    \E r \in Reqs :
        /\ req[r].pc = "done" /\ req[r].user = "u1" /\ PremiumMarks(req[r])
        /\ users["u1"].isPremium /\ users["u1"].downloadCount = LIMIT_USER

(* The urls of images, in order, whose block did not throw *)
RECURSIVE Survivors(_, _)
Survivors(images, skipped) ==
    IF images = <<>> THEN <<>>
    ELSE IF Head(images) \in skipped THEN Survivors(Tail(images), skipped)
    ELSE <<Head(images)>> \o Survivors(Tail(images), skipped)

PageUrls(pages) == [i \in 1..Len(pages) |-> pages[i].url]

(* C10: once the loop is over, the document holds one page per image      *)
(* whose block did not throw, in the order of the urls, and no page, not  *)
(* even an empty one, for an image whose block threw at any step.         *)
C10_PagesAreSurvivors ==
    \A r \in Reqs :
        req[r].pc \in {"ended", "stat", "done"}
        => /\ Len(req[r].pages) = Len(req[r].images) - Cardinality(req[r].skipped)
           /\ PageUrls(req[r].pages) = Survivors(req[r].images, req[r].skipped)
           /\ \A i \in 1..Len(req[r].pages) : req[r].pages[i].drawn

(* The guest counters that differ between two Maps *)
ChangedKeys(old, new) ==
    { k \in (DOMAIN old) \cup (DOMAIN new) : CacheGet(old, k) # CacheGet(new, k) }

(* C11: the clientIp an anonymous request is admitted with is the first   *)
(* entry of its forwarded-address value, trimmed; the limit check reads   *)
(* the counter of that key, and the only guest counter its commit         *)
(* changes is the counter of that key.                                    *)
C11_GuestKeyIsFirstAddressTrimmed ==
    [][\A r \in Reqs :
        /\ (Classified(r) /\ req'[r].isGuest /\ RawAddress(req'[r]) # Undefined)
            => /\ req'[r].clientIp = NormalizedAddress(RawAddress(req'[r]))
               /\ ~GuestLimitReached(
                      CacheGet(guestCache, NormalizedAddress(RawAddress(req'[r]))))
        /\ (FinishStep(r) /\ req[r].isGuest /\ RawAddress(req[r]) # Undefined)
            => ChangedKeys(guestCache, guestCache')
                 \subseteq {NormalizedAddress(RawAddress(req[r]))}]_vars

(* The address of q is a single address, not a list *)
PlainAddress(q) == RawAddress(q) # Undefined /\ ~Includes(RawAddress(q), ",")

(* The usage counter and the limit of the identity of request q, in the   *)
(* ledger (us, cache): the account's downloadCount, or the guest counter   *)
(* of its address.                                                         *)
OwnCounter(us, cache, q) ==
    IF q.user # NoUser THEN us[q.user].downloadCount
    ELSE CacheGet(cache, NormalizedAddress(RawAddress(q)))

OwnLimit(q) == IF q.user # NoUser THEN LIMIT_USER ELSE LIMIT_GUEST_IP

(* No other download is between its admission and the end of its commit *)
Sequential(r) ==
    \A s \in Reqs \ {r} : req[s].pc \notin {"handler", "loop", "ended", "stat"}

(* C12: a request of a non-premium identity (an account, or a guest at a  *)
(* single address) is admitted exactly when the identity's counter is     *)
(* below its limit and is answered 403 otherwise; when its download       *)
(* finishes with no other download in flight the counter goes up by one   *)
(* (9 -> 10, 49 -> 50), so the identity's next request meets the limit.   *)
C12_AdmittedWhileBelowLimit ==
    [][\A r \in Reqs :
        /\ (/\ Classified(r)
            /\ \/ req'[r].user = NoUser /\ PlainAddress(req'[r])
               \/ AccountRead(r) /\ ~users[req'[r].user].isPremium)
            => IF OwnCounter(users, guestCache, req'[r]) < OwnLimit(req'[r])
               THEN req'[r].pc = "handler" /\ req'[r].status = 0
               ELSE req'[r].pc = "rejected" /\ req'[r].status = 403
        /\ (/\ FinishStep(r) /\ Sequential(r)
            /\ req'[r].errors = req[r].errors
            /\ \/ req[r].userDoc # NoUser
               \/ req[r].isGuest /\ PlainAddress(req[r]))
            => OwnCounter(users', guestCache', req[r])
                 = OwnCounter(users, guestCache, req[r]) + 1]_vars

C12_Witness ==
    \E r, s \in Reqs :
        /\ req[r].pc = "done" /\ req[r].errors = <<>>
        /\ req[r].userDoc # NoUser \/ (req[r].isGuest /\ PlainAddress(req[r]))
        /\ req[s].pc = "rejected" /\ req[s].status = 403
        /\ req[s].user = req[r].user
        /\ req[s].xff = req[r].xff /\ req[s].remote = req[r].remote
        /\ OwnCounter(users, guestCache, req[s]) = OwnLimit(req[s])

(* checkDownloadLimit called next() for request q *)
Admitted(q) == q.pc \notin {"new", "rejected"}

(* The marks of the registered bucket and of the guest bucket *)
RegisteredMarks(q) == q.userDoc # NoUser /\ ~q.isGuest /\ q.clientIp = Undefined
GuestMarks(q) == q.isGuest /\ q.userDoc = NoUser

(* C13: req.userDoc is never set together with req.isGuest or            *)
(* req.clientIp; a request with an identity is never marked guest; an     *)
(* admitted request carries the marks of exactly one bucket, the bucket   *)
(* of its identity (registered: its own account; guest: no identity;      *)
(* premium: no mark, a premium account), and a request that was not       *)
(* admitted carries none.                                                  *)
C13_ExactlyOneBucket ==
    \A r \in Reqs :
        LET q == req[r] IN
        /\ ~(q.userDoc # NoUser /\ (q.isGuest \/ q.clientIp # Undefined))
        /\ q.clientIp # Undefined => q.isGuest
        /\ q.user # NoUser => (~q.isGuest /\ q.clientIp = Undefined)
        /\ Admitted(q)
            => \/ RegisteredMarks(q) /\ q.userDoc = q.user
               \/ GuestMarks(q) /\ q.user = NoUser
               \/ PremiumMarks(q) /\ q.user \in DOMAIN users /\ users[q.user].isPremium
        /\ ~Admitted(q) => (PremiumMarks(q) /\ q.clientIp = Undefined)

C13_Witness ==
    \E r, s \in Reqs :
        /\ req[r].pc = "loop" /\ RegisteredMarks(req[r])
        /\ req[s].pc = "handler" /\ GuestMarks(req[s]) /\ req[s].clientIp = <<"a">>

(* A GET /stats request is answered in this step *)
StatsStep == stats' # stats

(* A step of POST /trakteer-webhook: no request and no answer changes *)
WebhookStep == req' = req /\ stats' = stats

(* C14: an account's downloadCount never goes down and no account is      *)
(* lost; it changes only by +1, in the quota update of the 'finish'       *)
(* listener of a request admitted with that account as req.userDoc;       *)
(* checkDownloadLimit, GET /stats and the webhook leave every             *)
(* downloadCount as it is (the webhook touches isPremium alone).          *)
C14_DownloadCountOnlyGrows ==
    [][/\ DOMAIN users' = DOMAIN users
       /\ \A id \in DOMAIN users :
            /\ users'[id].downloadCount
                 \in {users[id].downloadCount, users[id].downloadCount + 1}
            /\ users'[id].downloadCount # users[id].downloadCount
                => \E r \in Reqs : FinishStep(r) /\ req[r].userDoc = id
            /\ (WebhookStep \/ StatsStep \/ \E r \in Reqs : Classified(r))
                => users'[id].downloadCount = users[id].downloadCount
       /\ (StatsStep \/ \E r \in Reqs : Classified(r)) => users' = users]_vars

C14_Witness ==
    /\ req[1].pc = "done" /\ req[1].userDoc = "u1"
    /\ users["u1"].isPremium /\ users["u1"].downloadCount = LIMIT_USER
    /\ stats.id = "u1" /\ stats.reply.type = "premium"

(* The bucket checkDownloadLimit puts a caller in, read off its outcome o: *)
(* the marks of an admitted request, or for a 403 the bucket whose limit   *)
(* was reached.                                                            *)
ClassifierBucket(id, o) ==
    IF o.userDoc # NoUser THEN "user"
    ELSE IF o.isGuest THEN "guest"
    ELSE IF o.next THEN "premium"
    ELSE IF id # NoUser THEN "user" ELSE "guest"

(* The limit GET /stats shows for a bucket *)
BucketLimit(type) ==
    IF type = "premium" THEN Unlimited
    ELSE IF type = "user" THEN Finite(LIMIT_USER)
    ELSE Finite(LIMIT_GUEST_IP)

(* C15: for a caller that checkDownloadLimit puts in a bucket (it admits   *)
(* the caller or answers 403), GET /stats in the same state answers that   *)
(* bucket as type, the limit of that bucket, and as usage the account's    *)
(* downloadCount or the guest counter of the caller's normalized address.  *)
C15_StatsReflectsClassifier ==
    [][StatsStep =>
        LET c == stats'
            o == Classify(c.id, c.xff, c.remote, c.dbErr)
        IN  o.status \in {0, 403}
            => /\ c.reply.type = ClassifierBucket(c.id, o)
               /\ c.reply.limit = BucketLimit(c.reply.type)
               /\ c.reply.usage =
                    IF c.id # NoUser THEN users[c.id].downloadCount
                    ELSE CacheGet(guestCache, NormalizedAddress(Or(c.xff, c.remote)))]_vars

(* The callers of GET /stats *)
Callers ==
    { [id |-> id, xff |-> a.xff, remote |-> a.remote, dbErr |-> e] :
        id \in Identities \cup {NoUser}, a \in Addresses, e \in BOOLEAN }

(* An internal failure of GET /stats for caller c: the account lookup      *)
(* rejects, or no client address is there for ip.includes (the first       *)
(* router of api.js calls no method on the address: nothing fails there).  *)
StatsFailure(c) ==
    \/ c.id # NoUser /\ c.dbErr
    \/ c.id = NoUser /\ Or(c.xff, c.remote) = Undefined /\ router # "apiA"

(* C16: in every state and for every caller GET /stats answers a JSON of   *)
(* type guest, user or premium, never an error; when the lookup rejects or *)
(* the address is missing the answer is { guest, 0, LIMIT_GUEST_IP }; and  *)
(* a GET /stats step changes no counter and no request.                    *)
C16_StatsNeverErrors ==
    [][/\ \A c \in Callers :
            LET s == StatsReply(c.id, c.xff, c.remote, c.dbErr) IN
            /\ s.type \in {"guest", "user", "premium"}
            /\ StatsFailure(c) => s = GuestZero
       /\ StatsStep
           => /\ stats'.reply = StatsReply(stats'.id, stats'.xff, stats'.remote, stats'.dbErr)
              /\ stats'.reply.type \in {"guest", "user", "premium"}
              /\ users' = users /\ guestCache' = guestCache
              /\ downloads' = downloads /\ req' = req]_vars

C16_Witness ==
    /\ stats.id = "u1" /\ stats.dbErr /\ stats.reply = GuestZero
    /\ users["u1"].downloadCount = LIMIT_USER /\ req[1].pc = "done"

(* The decision checkDownloadLimit left on request q *)
OutcomeOf(q) == Outcome(q.pc = "handler", q.status, q.userDoc, q.isGuest, q.clientIp)

(* C17: a run of checkDownloadLimit changes no account, no guest counter   *)
(* and no statistic, and the same caller classified again in the state it  *)
(* leaves behind gets the same decision: the same next() or answer, the    *)
(* same status, the same bucket marks.                                     *)
C17_ClassificationIsPure ==
    [][\A r \in Reqs :
        Classified(r)
        => /\ users' = users /\ guestCache' = guestCache /\ downloads' = downloads
           /\ \A c \in Callers :
                (/\ c.id = req'[r].user /\ c.xff = req'[r].xff
                 /\ c.remote = req'[r].remote /\ c.dbErr = req'[r].dbErr)
                => (Classify(c.id, c.xff, c.remote, c.dbErr) = OutcomeOf(req[r]))']_vars

C17_Witness ==
    /\ \A r \in Reqs :
          /\ req[r].pc = "handler" /\ req[r].isGuest
          /\ req[r].xff = <<"a">> /\ req[r].remote = <<"c">>
    /\ CacheGet(guestCache, <<"a">>) = LIMIT_GUEST_IP - 1

(* The key the 'finish' listener of request q counts under: its account,   *)
(* or its client address; "none" when the listener counts nothing.         *)
CountedKey(q) ==
    IF LedgerBranch(q) = "user" THEN <<"user", q.userDoc>>
    ELSE IF LedgerBranch(q) = "guest" THEN <<"guest", q.clientIp>>
    ELSE <<"none">>

(* The counter of a key in the ledger (us, cache) *)
KeyCounter(us, cache, key) ==
    IF key[1] = "user" THEN us[key[2]].downloadCount
    ELSE IF key[1] = "guest" THEN CacheGet(cache, key[2])
    ELSE 0

(* Requests other than r that were admitted under the key of r and are    *)
(* in flight or have finished                                              *)
SameKey(r) ==
    { s \in Reqs \ {r} : Admitted(req[s]) /\ CountedKey(req[s]) = CountedKey(req[r]) }

(* C18: whatever the positions of the other downloads of the same key      *)
(* (in flight, finishing, finished), the finish of a download whose write  *)
(* is not rejected adds exactly 1 to the counter of its key, and a step    *)
(* that is not such a finish leaves that counter alone: k finishes add k.  *)
C18_NoLostIncrement ==
    [][\A r \in Reqs :
        LET key == CountedKey(req[r]) IN
        (Admitted(req[r]) /\ key # <<"none">>)
        => IF FinishStep(r) /\ req'[r].errors = req[r].errors
           THEN KeyCounter(users', guestCache', key)
                  = KeyCounter(users, guestCache, key) + 1
           ELSE KeyCounter(users', guestCache', key) # KeyCounter(users, guestCache, key)
                  => \E s \in SameKey(r) :
                        FinishStep(s) /\ req'[s].errors = req[s].errors]_vars

C18_Witness ==
    /\ \A r \in Reqs :
          req[r].pc = "done" /\ req[r].isGuest /\ req[r].clientIp = <<"a">>
    /\ CacheGet(guestCache, <<"a">>) = LIMIT_GUEST_IP + 1

(* C19: the 'finish' listener of a request admitted with req.userDoc adds  *)
(* 1 to that account's downloadCount also when the account is premium by   *)
(* the time the stream finishes (the webhook ran after the limit check):   *)
(* the listener goes by req.userDoc and does not read isPremium again.     *)
C19_CommitUsesCapturedAdmission ==
    [][\A r \in Reqs :
        (/\ FinishStep(r) /\ req'[r].errors = req[r].errors
         /\ req[r].userDoc # NoUser
         /\ users[req[r].userDoc].isPremium)
        => /\ users'[req[r].userDoc].downloadCount
                = users[req[r].userDoc].downloadCount + 1
           /\ users'[req[r].userDoc].isPremium]_vars

C19_Witness ==
    \E r, s \in Reqs :
        /\ req[r].pc = "done" /\ req[r].userDoc = "u1" /\ req[r].errors = <<>>
        /\ req[s].pc = "ended" /\ req[s].user = "u1" /\ PremiumMarks(req[s])
        /\ users["u1"].isPremium /\ users["u1"].downloadCount = LIMIT_USER

(* The usage counters and the download statistic *)
Counters == <<[id \in DOMAIN users |-> users[id].downloadCount], guestCache, downloads>>

(* C20: the 'finish' listener of a request starts only from a response     *)
(* that has emitted 'finish': doc.end() was reached after the last image   *)
(* and the client is still there; every other step of a request, from its  *)
(* limit check to doc.end() and a disconnect, changes no usage counter     *)
(* and no statistic.                                                        *)
C20_CommitOnlyAfterFinish ==
    [][\A r \in Reqs :
        /\ (req'[r].pc \in {"stat", "done"} /\ req[r].pc \notin {"stat", "done"})
            => /\ req[r].pc = "ended" /\ ~req[r].closed
               /\ req[r].status = 200 /\ req[r].idx = Len(req[r].images)
        /\ (req'[r] # req[r] /\ ~CommitStep(r)) => Counters' = Counters
        /\ (req'[r] # req[r] /\ req'[r].pc \in {"handler", "loop", "ended"})
            => Counters' = Counters]_vars

C20_Witness ==
    \E r, s \in Reqs :
        /\ req[r].pc = "ended" /\ req[r].isGuest /\ req[r].clientIp = <<"a">>
        /\ req[s].pc = "done" /\ req[s].isGuest /\ req[s].clientIp = <<"a">>
        /\ CacheGet(guestCache, <<"a">>) = 1
        /\ downloads = IF router = "part001" THEN 1 ELSE 0

(* The urls of the images whose block has run *)
Attempted(q) == { q.images[i] : i \in 1..q.idx }

(* C21: a throw inside the block of one image ends that block only: the    *)
(* request stays in the loop with its 200 response and no error logged,    *)
(* the skipped urls are among the attempted ones, the request is never     *)
(* answered from inside the loop, and doc.end() is reached only after the  *)
(* block of every url of the chapter has run, whichever blocks threw       *)
(* (all of them included).                                                  *)
C21_ImageFailureContained ==
    \A r \in Reqs :
        LET q == req[r] IN
        /\ q.skipped \subseteq Attempted(q)
        /\ q.idx <= Len(q.images)
        /\ q.pc = "loop" => (q.status = 200 /\ q.errors = <<>>)
        /\ q.pc = "answered" => (q.idx = 0 /\ q.skipped = {})
        /\ q.pc \in {"ended", "stat", "done"}
            => (q.status = 200 /\ Attempted(q) = { q.images[i] : i \in 1..Len(q.images) }
                /\ q.idx = Len(q.images))

C21_Witness ==
    /\ req[1].pc = "ended" /\ Len(req[1].images) = MaxDocImages
    /\ Cardinality(req[1].skipped) = MaxDocImages
    /\ req[1].pages = <<>>

(* A write of the 'finish' listener of request r is rejected in this step *)
CommitFailure(r) ==
    req[r].pc \in {"ended", "stat"} /\ req'[r].errors # req[r].errors

(* C22: a rejected write of the 'finish' listener (the account's $inc or   *)
(* the Manga.downloads $inc) is logged once as "Limit Update Error" and    *)
(* ends the listener: the 200 response and every other field of the        *)
(* request stay as they were, the write is not tried again (a listener     *)
(* that is done takes no further step), no counter moves in that step and  *)
(* no other request is touched.                                            *)
C22_CommitFailureOnlyLogged ==
    [][\A r \in Reqs :
        /\ CommitFailure(r)
            => /\ req[r].status = 200
               /\ req'[r] = [req[r] EXCEPT !.pc = "done",
                                          !.errors = Append(@, "Limit Update Error")]
               /\ Counters' = Counters
               /\ \A s \in Reqs \ {r} : req'[s] = req[s]
        /\ req[r].pc = "done" => req'[r] = req[r]]_vars

C22_Witness ==
    \E r \in Reqs :
        /\ router = "part001"
        /\ req[r].pc = "done" /\ req[r].status = 200
        /\ req[r].errors = <<"Limit Update Error">>
        /\ req[r].isGuest /\ CacheGet(guestCache, req[r].clientIp) = 1
        /\ downloads = 0

(* C23: once the client of a request has disconnected, the block of no     *)
(* further image of that request is started (no axios.get, no sharp).      *)
C23_DisconnectStopsFetching ==
    [][\A r \in Reqs : req[r].closed => req'[r].idx = req[r].idx]_vars

(* A fatal error of the document assembly of request q: PDF setup threw    *)
(* into the outer catch (answered 500), or the response sink failed (the   *)
(* connection is gone, writes to res fail).                                *)
FatalError(q) == q.closed \/ (q.pc = "answered" /\ q.status = 500)

(* C24: after a fatal error of its document assembly a request handles no  *)
(* further image, adds no page, and its 'finish' listener never runs.      *)
C24_FatalErrorAborts ==
    [][\A r \in Reqs :
        FatalError(req[r])
        => /\ req'[r].idx = req[r].idx /\ req'[r].pages = req[r].pages
           /\ req'[r].pc \notin {"stat", "done"}
           /\ Counters' = Counters \/ \E s \in Reqs \ {r} : CommitStep(s)]_vars

(* C25: in every state no guest counter is above LIMIT_GUEST_IP and no     *)
(* account that started at or below the limit has a downloadCount above    *)
(* LIMIT_USER (an account above it holds the count it started with).       *)
C25_CountersWithinLimit ==
    /\ \A k \in DOMAIN guestCache : guestCache[k] <= LIMIT_GUEST_IP
    /\ \A id \in DOMAIN users :
          users[id].downloadCount <= LIMIT_USER
          \/ users[id].downloadCount \in InitCounts

(* C26: a request that passed the limit check and is then answered 404     *)
(* (no manga, no chapter, no images) or 500 (a lookup or the PDF setup     *)
(* throws) is answered with every counter unchanged and takes no further   *)
(* step: no listener was registered for it, so its finished response       *)
(* commits nothing; counters move only in the listener of a 200 stream.    *)
C26_AnsweredAfterAdmissionCommitsNothing ==
    [][/\ \A r \in Reqs :
            /\ (req[r].pc = "handler" /\ req'[r].pc = "answered")
                => (req'[r].status \in {404, 500} /\ Counters' = Counters)
            /\ req[r].pc = "answered" => req'[r] = req[r]
            /\ req[r].status \in {404, 500} => ~CommitStep(r)
       /\ Counters' # Counters
           => \E s \in Reqs : CommitStep(s) /\ req[s].status = 200]_vars

C26_Witness ==
    \E r, s \in Reqs :
        /\ req[r].pc = "answered" /\ req[r].status = 404 /\ req[r].isGuest
        /\ req[s].pc = "answered" /\ req[s].status = 500 /\ req[s].userDoc = "u1"
        /\ CacheGet(guestCache, req[r].clientIp) = 0
        /\ users["u1"].downloadCount = LIMIT_USER - 1 /\ downloads = 0

(* The document of q is empty: the block of every image threw *)
EmptyDocument(q) ==
    q.images # <<>> /\ q.skipped = { q.images[i] : i \in 1..Len(q.images) }

(* C27: when the listener of a finished download whose images all failed   *)
(* has run without a rejected write, the requester's counter stands one    *)
(* above a value it can have started from below the limit (account: its    *)
(* downloadCount; guest: the counter of its client address), and once the  *)
(* listener is done in the router that keeps the statistic,                *)
(* Manga.downloads has been counted.                                       *)
C27_EmptyDocumentCommitted ==
    \A r \in Reqs :
        LET q == req[r] IN
        (q.pc \in {"stat", "done"} /\ EmptyDocument(q) /\ q.errors = <<>>)
        => /\ q.userDoc # NoUser
               => users[q.userDoc].downloadCount
                    \in { c + 1 : c \in { n \in InitCounts : n < LIMIT_USER } }
           /\ (q.isGuest /\ Truthy(q.clientIp))
               => CacheGet(guestCache, q.clientIp)
                    \in { c + 1 : c \in { n \in InitGuestCounts : n < LIMIT_GUEST_IP } }
           /\ (q.pc = "done" /\ router = "part001") => downloads = 1

C27_Witness ==
    /\ router = "part001"
    /\ req[1].pc = "done" /\ EmptyDocument(req[1]) /\ req[1].errors = <<>>
    /\ req[1].isGuest /\ req[1].clientIp = <<"a">>
    /\ CacheGet(guestCache, <<"a">>) = LIMIT_GUEST_IP /\ downloads = 1

(* Request q was answered 403 by the limit check *)
DeniedAtLimit(q) == q.pc = "rejected" /\ q.status = 403

(* Requests p and q come from the same identity: the same account, or no   *)
(* account and the same addresses.                                         *)
SameIdentity(p, q) ==
    /\ p.user = q.user
    /\ p.user = NoUser => (p.xff = q.xff /\ p.remote = q.remote)

(* C28: no step lowers or removes a guest counter, lowers a downloadCount  *)
(* or takes isPremium away; and when an identity has been answered 403,    *)
(* a later request of the same identity whose limit check reads the        *)
(* ledger is answered 403 as well, unless its account is premium by then.  *)
C28_DenialIsPermanent ==
    [][/\ \A k \in DOMAIN guestCache :
            CacheGet(guestCache', k) >= guestCache[k]
       /\ \A id \in DOMAIN users :
            /\ users'[id].downloadCount >= users[id].downloadCount
            /\ users[id].isPremium => users'[id].isPremium
       /\ \A r, s \in Reqs :
            (/\ Classified(r) /\ DeniedAtLimit(req[s])
             /\ SameIdentity(req'[r], req[s])
             /\ ~req'[r].dbErr
             /\ req'[r].user # NoUser => ~users[req'[r].user].isPremium)
            => DeniedAtLimit(req'[r])]_vars

C28_Witness ==
    /\ \A r \in Reqs :
          /\ DeniedAtLimit(req[r]) /\ req[r].user = NoUser
          /\ req[r].xff = <<"a">> /\ req[r].remote = <<"c">>
    /\ CacheGet(guestCache, <<"a">>) = LIMIT_GUEST_IP

=============================================================================
